---- MODULE Spec2Model ----
(***************************************************************************)
(* Conversant analytics adapter (modules/conversantAnalyticsAdapter.js,    *)
(* the current adapter, source lines 269-581): the event handlers          *)
(* onBidTimeout, onBidWon, onAdRenderFailed and onAuctionEnd, the two      *)
(* time-bounded caches adIdLookup and timeoutCache, and the periodic       *)
(* cache sweep.                                                            *)
(*                                                                         *)
(* JavaScript values.  A value that may be undefined is a tuple: <<>> is   *)
(* undefined and <<v>> is the value v.  An object used as a map is a       *)
(* function whose domain is the set of its property names (strings).       *)
(* Strings are TLA+ strings, concatenated with \o.                         *)
(***************************************************************************)
EXTENDS Integers, Sequences, FiniteSets, TLC

VARIABLES
    enabled,       \* the base adapter delivers events to track()
    initOptions,   \* config.options of the last successful enableAnalytics
    now,           \* Date.now(), milliseconds since the module was loaded
    nextSweep,     \* due time of the next setInterval callback
    adIdLookup,    \* <adId> -> [bidderCode, adUnitCode, auctionId, timeReceived]
    timeoutCache,  \* <lookup key> -> [timeReceived]
    last,          \* the operation of the latest step and its arguments
    out,           \* the payloads the latest step handed to sendData, in order
    threw,         \* the latest handler ended with an uncaught TypeError
    dropped,       \* the cache keys the latest step removed, per cache
    created,       \* history: per adId key, how often an entry came into being
    failedSent,    \* history: per adId key, render_failed payloads dispatched
    recorded,      \* history: <<auctionId, adUnitCode, bidder>> timed out -> [timeReceived]
    consumed,      \* history: the triples whose timeout an auction end has used
    evicted,       \* history: adIds and triples a sweep removed, not written since
    rewritten      \* history: the triples whose recorded timeout replaced an older one

vars == <<enabled, initOptions, now, nextSweep, adIdLookup, timeoutCache,
          last, out, threw, dropped, created, failedSent, recorded, consumed,
          evicted, rewritten>>

-----------------------------------------------------------------------------
(* Program constants *)

MAX_MILLISECONDS_IN_CACHE == 30000
CACHE_CLEANUP_TIME_IN_MILLIS == 30000

CNVR_WIN == 10
CNVR_BID == 20
CNVR_NO_BID == 30
CNVR_TIMEOUT == 40
CNVR_RENDER_FAILED == 50

PREBID_VERSION == "1.2"
SITE_ID == 108060

-----------------------------------------------------------------------------
(* Bounds of the model *)

MaxTicks == 2          \* the clock advances at most this many times
MaxCreated == 2        \* entries counted per adId in the history variables

TimeStep == CACHE_CLEANUP_TIME_IN_MILLIS \div 2

-----------------------------------------------------------------------------
(* JavaScript values *)

undefined == <<>>
Def(v) == <<v>>
IsUndefined(x) == x = undefined          \* typeof x === 'undefined'
Val(x) == x[1]

\* String(x), as used by the + operator and by property access obj[x]
Str(x) == IF IsUndefined(x) THEN "undefined" ELSE Val(x)

EmptyObject == [k \in {} |-> undefined]
Has(obj, k) == k \in DOMAIN obj          \* typeof obj[k] !== 'undefined'
\* obj[k] = v
Put(obj, k, v) == [x \in (DOMAIN obj) \cup {k} |-> IF x = k THEN v ELSE obj[x]]
\* delete obj[k]
Delete(obj, k) == [x \in (DOMAIN obj) \ {k} |-> obj[x]]

\* array.push(v)
Push(array, v) == Append(array, v)

-----------------------------------------------------------------------------
(* Helpers of the adapter *)

\* A key that joins the three components without the separator.
getLookupKey_noSeparator(auctionId, adUnitCode, bidderCode) ==
    Str(auctionId) \o Str(adUnitCode) \o Str(bidderCode)

getLookupKey(auctionId, adUnitCode, bidderCode) ==
    Str(auctionId) \o "-" \o Str(adUnitCode) \o "-" \o Str(bidderCode)

\* createPayload reads initOptions.site_id; handlers only run once enabled,
\* when initOptions is an object.
createPayload(payloadType, auctionId) ==
    [requestType |-> payloadType,
     auction |-> [auctionId |-> auctionId,
                  preBidVersion |-> PREBID_VERSION,
                  sid |-> Val(initOptions).site_id],
     adUnits |-> EmptyObject]

createAdSize(width, height) == [w |-> width, h |-> height]

createAdUnit == [sizes |-> <<>>, bids |-> EmptyObject]

initializeBidDefaults ==
    [eventCodes |-> <<>>,
     adSize |-> undefined,
     cpm |-> undefined,
     originalCpm |-> undefined,
     currency |-> undefined,
     timeToRespond |-> undefined]

\* sendData(payload): one fire-and-forget ajax call per payload
sendData(sent, payload) == Append(sent, payload)

\* A sweep that keeps an entry until it is older than the maximum age.
cleanCache_strict(cacheObj, currTime) ==
    [key \in {k \in DOMAIN cacheObj :
                ~(currTime - cacheObj[k].timeReceived > MAX_MILLISECONDS_IN_CACHE)}
        |-> cacheObj[key]]

cleanCache(cacheObj, currTime) ==
    [key \in {k \in DOMAIN cacheObj :
                ~(currTime - cacheObj[k].timeReceived >= MAX_MILLISECONDS_IN_CACHE)}
        |-> cacheObj[key]]

-----------------------------------------------------------------------------
(* What a step leaves to be observed: the operation, the payloads handed to  *)
(* sendData, whether it threw, and the keys it removed from the caches.      *)

Observed(op, args, sent, didThrow) ==
    /\ last' = [op |-> op, args |-> args]
    /\ out' = sent
    /\ threw' = didThrow
    /\ dropped' = [adIdLookup |-> (DOMAIN adIdLookup) \ (DOMAIN adIdLookup'),
                   timeoutCache |-> (DOMAIN timeoutCache) \ (DOMAIN timeoutCache')]

-----------------------------------------------------------------------------
(* onBidTimeout *)

\* A cache in which the first entry of a key stays, as in adIdLookup.
RECURSIVE cacheTimeouts_firstWins(_, _, _)
cacheTimeouts_firstWins(cache, list, t) ==
    IF list = <<>> THEN cache
    ELSE LET timedOutBid == Head(list)
             timeoutCacheKey == getLookupKey(timedOutBid.auctionId,
                                             timedOutBid.adUnitCode,
                                             timedOutBid.bidder)
         IN cacheTimeouts_firstWins(
                IF Has(cache, timeoutCacheKey) THEN cache
                ELSE Put(cache, timeoutCacheKey, [timeReceived |-> t]),
                Tail(list), t)

RECURSIVE cacheTimeouts(_, _, _)
cacheTimeouts(cache, list, t) ==
    IF list = <<>> THEN cache
    ELSE LET timedOutBid == Head(list)
             timeoutCacheKey == getLookupKey(timedOutBid.auctionId,
                                             timedOutBid.adUnitCode,
                                             timedOutBid.bidder)
         IN cacheTimeouts(Put(cache, timeoutCacheKey, [timeReceived |-> t]),
                          Tail(list), t)

onBidTimeout(args) ==
    /\ enabled
    /\ timeoutCache' = cacheTimeouts(timeoutCache, args, now)
    /\ UNCHANGED <<enabled, initOptions, now, nextSweep, adIdLookup>>
    /\ Observed("onBidTimeout", args, <<>>, FALSE)

-----------------------------------------------------------------------------
(* onBidWon *)

\* the guard of onBidWon: false means the handler returns at once
bidWonAccepted(args) ==
    ~(IsUndefined(args.bidderCode) \/ IsUndefined(args.adUnitCode))

\* A payload that copies originalCpm into cpm.
bidWonPayload_cpmMixup(args) ==
    LET bidPayload == [initializeBidDefaults EXCEPT
                         !.eventCodes = Push(@, CNVR_WIN),
                         !.adSize = Def(createAdSize(args.width, args.height)),
                         !.cpm = args.originalCpm,
                         !.originalCpm = args.originalCpm,
                         !.currency = args.currency,
                         !.timeToRespond = args.timeToRespond]
        adUnit == [createAdUnit EXCEPT
                         !.bids = Put(@, Str(args.bidderCode), bidPayload)]
    IN [createPayload("bid_won", args.auctionId) EXCEPT
                         !.adUnits = Put(@, Str(args.adUnitCode), adUnit)]

bidWonPayload(args) ==
    LET bidPayload == [initializeBidDefaults EXCEPT
                         !.eventCodes = Push(@, CNVR_WIN),
                         !.adSize = Def(createAdSize(args.width, args.height)),
                         !.cpm = args.cpm,
                         !.originalCpm = args.originalCpm,
                         !.currency = args.currency,
                         !.timeToRespond = args.timeToRespond]
        adUnit == [createAdUnit EXCEPT
                         !.bids = Put(@, Str(args.bidderCode), bidPayload)]
    IN [createPayload("bid_won", args.auctionId) EXCEPT
                         !.adUnits = Put(@, Str(args.adUnitCode), adUnit)]

\* A lookup update that overwrites an existing entry (last write wins).
rememberAdId_overwrite(lookup, args, t) ==
    Put(lookup, Str(args.adId),
        [bidderCode |-> args.bidderCode,
         adUnitCode |-> args.adUnitCode,
         auctionId |-> args.auctionId,
         timeReceived |-> t])

rememberAdId(lookup, args, t) ==
    IF ~Has(lookup, Str(args.adId))
    THEN Put(lookup, Str(args.adId),
             [bidderCode |-> args.bidderCode,
              adUnitCode |-> args.adUnitCode,
              auctionId |-> args.auctionId,
              timeReceived |-> t])
    ELSE lookup

onBidWon(args) ==
    /\ enabled
    /\ UNCHANGED <<enabled, initOptions, now, nextSweep, timeoutCache>>
    /\ IF bidWonAccepted(args)
       THEN /\ adIdLookup' = rememberAdId(adIdLookup, args, now)
            /\ Observed("onBidWon", args,
                        sendData(<<>>, bidWonPayload(args)), FALSE)
       ELSE /\ adIdLookup' = adIdLookup
            /\ Observed("onBidWon", args, <<>>, FALSE)

-----------------------------------------------------------------------------
(* onAdRenderFailed *)

\* A guard that forgets to require an adId on the event.
renderFailedResolves_anyAdId(lookup, args) == Has(lookup, Str(args.adId))

\* the first guard: an adId that resolves to an adIdLookup entry
renderFailedResolves(lookup, args) ==
    ~(IsUndefined(args.adId) \/ ~Has(lookup, Str(args.adId)))

\* A payload built with ad-slot and bidder exchanged.
renderFailedPayload_swapped(entry) ==
    LET bidPayload == [initializeBidDefaults EXCEPT
                         !.eventCodes = Push(@, CNVR_RENDER_FAILED)]
        adUnit == [createAdUnit EXCEPT
                         !.bids = Put(@, Str(entry.adUnitCode), bidPayload)]
    IN [createPayload("render_failed", entry.auctionId) EXCEPT
                         !.adUnits = Put(@, Str(entry.bidderCode), adUnit)]

renderFailedPayload(entry) ==
    LET bidPayload == [initializeBidDefaults EXCEPT
                         !.eventCodes = Push(@, CNVR_RENDER_FAILED)]
        adUnit == [createAdUnit EXCEPT
                         !.bids = Put(@, Str(entry.bidderCode), bidPayload)]
    IN [createPayload("render_failed", entry.auctionId) EXCEPT
                         !.adUnits = Put(@, Str(entry.adUnitCode), adUnit)]

\* A second guard that only looks at bidderCode.
entryComplete_bidderOnly(entry) == ~IsUndefined(entry.bidderCode)

\* the second guard: false means the handler returns after the delete
entryComplete(entry) ==
    ~(IsUndefined(entry.bidderCode) \/ IsUndefined(entry.adUnitCode))

\* An adIdLookup that keeps the entry a render failure resolved.
forgetAdId_keep(lookup, args) == lookup

forgetAdId(lookup, args) == Delete(lookup, Str(args.adId))

onAdRenderFailed(args) ==
    /\ enabled
    /\ UNCHANGED <<enabled, initOptions, now, nextSweep, timeoutCache>>
    /\ IF renderFailedResolves(adIdLookup, args)
       THEN LET entry == adIdLookup[Str(args.adId)]
            IN /\ adIdLookup' = forgetAdId(adIdLookup, args)
               /\ IF ~entryComplete(entry)
                  THEN Observed("onAdRenderFailed", args, <<>>, FALSE)
                  ELSE Observed("onAdRenderFailed", args,
                                sendData(<<>>, renderFailedPayload(entry)), FALSE)
       ELSE /\ adIdLookup' = adIdLookup
            /\ Observed("onAdRenderFailed", args, <<>>, FALSE)

-----------------------------------------------------------------------------
(* onAuctionEnd *)

\* Values of adUnit.sizes: Arr(s) is the array with elements s, Num(n) a number.
Arr(s) == [arr |-> s]
Num(n) == [num |-> n]
IsArray(v) == "arr" \in DOMAIN v         \* Array.isArray(v)
\* v.length != 2 (the length of a number is undefined)
LengthIsNot2(v) == IF IsArray(v) THEN Len(v.arr) # 2 ELSE TRUE

RECURSIVE pushSizes(_, _)
pushSizes(sizes, adSizes) ==
    IF adSizes = <<>> THEN sizes
    ELSE LET size == Head(adSizes)
         IN IF LengthIsNot2(size)
            THEN pushSizes(sizes, Tail(adSizes))
            ELSE pushSizes(Push(sizes, [w |-> size.arr[1], h |-> size.arr[2]]),
                           Tail(adSizes))

\* the sizes of one declared ad unit (lines 467-485)
unitSizes(sizes) ==
    IF ~IsUndefined(sizes) /\ IsArray(Val(sizes)) /\ Len(Val(sizes).arr) >= 1
    THEN LET adSizes == IF ~IsArray(Val(sizes).arr[1])
                        THEN <<Val(sizes)>>
                        ELSE Val(sizes).arr
         IN pushSizes(<<>>, adSizes)
    ELSE <<>>

\* the state a running onAuctionEnd carries: the payload under construction,
\* timeoutCache, and whether a TypeError ended the handler
Throw(frame) == [frame EXCEPT !.threw = TRUE]

\* A declared bid that, on a match, empties the whole timeoutCache.
declareBid_clearsCache(unit, cache, auctionId, code, bid) ==
    LET declared == [unit EXCEPT
                       !.bids = Put(@, Str(bid.bidder), initializeBidDefaults)]
        timeoutKey == getLookupKey(auctionId, code, bid.bidder)
    IN IF Has(cache, timeoutKey)
       THEN [unit |-> [declared EXCEPT
                         !.bids[Str(bid.bidder)].eventCodes = Push(@, CNVR_TIMEOUT)],
             cache |-> EmptyObject]
       ELSE [unit |-> declared, cache |-> cache]

\* one declared bid of an ad unit (lines 456-465)
declareBid(unit, cache, auctionId, code, bid) ==
    LET declared == [unit EXCEPT
                       !.bids = Put(@, Str(bid.bidder), initializeBidDefaults)]
        timeoutKey == getLookupKey(auctionId, code, bid.bidder)
    IN IF Has(cache, timeoutKey)
       THEN [unit |-> [declared EXCEPT
                         !.bids[Str(bid.bidder)].eventCodes = Push(@, CNVR_TIMEOUT)],
             cache |-> Delete(cache, timeoutKey)]
       ELSE [unit |-> declared, cache |-> cache]

RECURSIVE declareBids(_, _, _, _, _)
declareBids(unit, cache, auctionId, code, bids) ==
    IF bids = <<>> THEN [unit |-> unit, cache |-> cache]
    ELSE LET r == declareBid(unit, cache, auctionId, code, Head(bids))
         IN declareBids(r.unit, r.cache, auctionId, code, Tail(bids))

\* args.adUnits.forEach (lines 451-488); adUnit.bids.forEach throws when
\* adUnit.bids is undefined
RECURSIVE declareAdUnits(_, _, _)
declareAdUnits(frame, auctionId, adUnits) ==
    IF adUnits = <<>> THEN frame
    ELSE LET adUnit == Head(adUnits)
         IN IF IsUndefined(adUnit.bids) THEN Throw(frame)
            ELSE LET r == declareBids(createAdUnit, frame.cache, auctionId,
                                      adUnit.code, Val(adUnit.bids))
                     cnvrAdUnit == [r.unit EXCEPT !.sizes = unitSizes(adUnit.sizes)]
                 IN declareAdUnits(
                        [frame EXCEPT
                           !.payload.adUnits = Put(@, Str(adUnit.code), cnvrAdUnit),
                           !.cache = r.cache],
                        auctionId, Tail(adUnits))

\* payload.adUnits[adUnitCode].bids[bidder] is an object
HasBid(payload, adUnitCode, bidder) ==
    /\ Has(payload.adUnits, Str(adUnitCode))
    /\ Has(payload.adUnits[Str(adUnitCode)].bids, Str(bidder))

\* args.noBids.forEach (lines 490-493); reading a property of undefined throws
RECURSIVE applyNoBids(_, _)
applyNoBids(frame, noBids) ==
    IF noBids = <<>> THEN frame
    ELSE LET noBid == Head(noBids)
         IN IF ~HasBid(frame.payload, noBid.adUnitCode, noBid.bidder)
            THEN Throw(frame)
            ELSE applyNoBids(
                   [frame EXCEPT
                      !.payload.adUnits[Str(noBid.adUnitCode)]
                         .bids[Str(noBid.bidder)].eventCodes = Push(@, CNVR_NO_BID)],
                   Tail(noBids))

\* A bidsReceived loop that keeps the data of the first record of a bidder.
RECURSIVE applyBidsReceived_firstWins(_, _)
applyBidsReceived_firstWins(frame, bidsReceived) ==
    IF bidsReceived = <<>> THEN frame
    ELSE LET bid == Head(bidsReceived)
         IN IF ~HasBid(frame.payload, bid.adUnitCode, bid.bidderCode)
            THEN Throw(frame)
            ELSE applyBidsReceived_firstWins(
                   [frame EXCEPT
                      !.payload.adUnits[Str(bid.adUnitCode)].bids[Str(bid.bidderCode)] =
                         IF ~IsUndefined(@.cpm)
                         THEN [@ EXCEPT !.eventCodes = Push(@, CNVR_BID)]
                         ELSE [@ EXCEPT
                                 !.eventCodes = Push(@, CNVR_BID),
                                 !.timeToRespond = bid.timeToRespond,
                                 !.originalCpm = bid.originalCpm,
                                 !.cpm = bid.cpm,
                                 !.currency = bid.currency,
                                 !.adSize = Def([w |-> bid.width, h |-> bid.height])]],
                   Tail(bidsReceived))

\* args.bidsReceived.forEach (lines 496-508)
RECURSIVE applyBidsReceived(_, _)
applyBidsReceived(frame, bidsReceived) ==
    IF bidsReceived = <<>> THEN frame
    ELSE LET bid == Head(bidsReceived)
         IN IF ~HasBid(frame.payload, bid.adUnitCode, bid.bidderCode)
            THEN Throw(frame)
            ELSE applyBidsReceived(
                   [frame EXCEPT
                      !.payload.adUnits[Str(bid.adUnitCode)].bids[Str(bid.bidderCode)] =
                         [@ EXCEPT
                            !.eventCodes = Push(@, CNVR_BID),
                            !.timeToRespond = bid.timeToRespond,
                            !.originalCpm = bid.originalCpm,
                            !.cpm = bid.cpm,
                            !.currency = bid.currency,
                            !.adSize = Def([w |-> bid.width, h |-> bid.height])]],
                   Tail(bidsReceived))

\* A handler that reads a missing adUnits as an empty list.
auctionEndRun_missingAdUnitsAsEmpty(cache, args) ==
    LET start == [payload |-> createPayload("auction_end", args.auctionId),
                  cache |-> cache,
                  threw |-> FALSE]
        declared == IF IsUndefined(args.adUnits) THEN start
                    ELSE declareAdUnits(start, args.auctionId, Val(args.adUnits))
        afterNoBids == IF declared.threw THEN declared
                       ELSE IF IsUndefined(args.noBids) THEN Throw(declared)
                       ELSE applyNoBids(declared, Val(args.noBids))
    IN IF afterNoBids.threw THEN afterNoBids
       ELSE IF IsUndefined(args.bidsReceived) THEN Throw(afterNoBids)
       ELSE applyBidsReceived(afterNoBids, Val(args.bidsReceived))

\* the whole handler, from a timeoutCache and the event to the final frame;
\* forEach of a value that is not an array throws
auctionEndRun(cache, args) ==
    LET start == [payload |-> createPayload("auction_end", args.auctionId),
                  cache |-> cache,
                  threw |-> FALSE]
        declared == IF IsUndefined(args.adUnits) THEN Throw(start)
                    ELSE declareAdUnits(start, args.auctionId, Val(args.adUnits))
        afterNoBids == IF declared.threw THEN declared
                       ELSE IF IsUndefined(args.noBids) THEN Throw(declared)
                       ELSE applyNoBids(declared, Val(args.noBids))
    IN IF afterNoBids.threw THEN afterNoBids
       ELSE IF IsUndefined(args.bidsReceived) THEN Throw(afterNoBids)
       ELSE applyBidsReceived(afterNoBids, Val(args.bidsReceived))

onAuctionEnd(args) ==
    /\ enabled
    /\ UNCHANGED <<enabled, initOptions, now, nextSweep, adIdLookup>>
    /\ LET end == auctionEndRun(timeoutCache, args)
       IN /\ timeoutCache' = end.cache
          /\ IF end.threw
             THEN Observed("onAuctionEnd", args, <<>>, TRUE)
             ELSE Observed("onAuctionEnd", args,
                           sendData(<<>>, end.payload), FALSE)

-----------------------------------------------------------------------------
(* Enabling, the clock and the sweep timer *)

\* enableAnalytics(config): a missing site_id is reported and nothing is
\* enabled; otherwise initOptions is stored and the base adapter is enabled.
\* A check that accepts any options object, also one without site_id.
configAccepted_optionsOnly(config) ==
    ~(IsUndefined(config) \/ IsUndefined(Val(config).options))

configAccepted(config) ==
    ~(IsUndefined(config) \/ IsUndefined(Val(config).options)
        \/ IsUndefined(Val(Val(config).options).site_id))

enableAnalytics(config) ==
    /\ IF configAccepted(config)
       THEN /\ initOptions' = Val(config).options
            /\ enabled' = TRUE
       ELSE UNCHANGED <<initOptions, enabled>>
    /\ UNCHANGED <<now, nextSweep, adIdLookup, timeoutCache>>
    /\ Observed("enableAnalytics", config, <<>>, FALSE)

\* disableAnalytics of the base adapter: events are no longer delivered
disableAnalytics ==
    /\ enabled' = FALSE
    /\ UNCHANGED <<initOptions, now, nextSweep, adIdLookup, timeoutCache>>
    /\ Observed("disableAnalytics", undefined, <<>>, FALSE)

\* time passes
Tick ==
    /\ now + TimeStep <= MaxTicks * TimeStep
    /\ now' = now + TimeStep
    /\ UNCHANGED <<enabled, initOptions, nextSweep, adIdLookup, timeoutCache>>
    /\ Observed("tick", undefined, <<>>, FALSE)

\* A timer callback that sweeps adIdLookup only.
Sweep_lookupOnly ==
    /\ now >= nextSweep
    /\ LET currTime == now
       IN /\ adIdLookup' = cleanCache(adIdLookup, currTime)
          /\ timeoutCache' = timeoutCache
    /\ nextSweep' = nextSweep + CACHE_CLEANUP_TIME_IN_MILLIS
    /\ UNCHANGED <<enabled, initOptions, now>>
    /\ Observed("sweep", undefined, <<>>, FALSE)

\* the setInterval callback (lines 329-336), registered when the module loads
Sweep ==
    /\ now >= nextSweep
    /\ LET currTime == now
       IN /\ adIdLookup' = cleanCache(adIdLookup, currTime)
          /\ timeoutCache' = cleanCache(timeoutCache, currTime)
    /\ nextSweep' = nextSweep + CACHE_CLEANUP_TIME_IN_MILLIS
    /\ UNCHANGED <<enabled, initOptions, now>>
    /\ Observed("sweep", undefined, <<>>, FALSE)

Init ==
    /\ enabled = FALSE
    /\ initOptions = undefined
    /\ now = 0
    /\ nextSweep = CACHE_CLEANUP_TIME_IN_MILLIS
    /\ adIdLookup = EmptyObject
    /\ timeoutCache = EmptyObject
    /\ last = [op |-> "load", args |-> undefined]
    /\ out = <<>>
    /\ threw = FALSE
    /\ dropped = [adIdLookup |-> {}, timeoutCache |-> {}]
    /\ created = [k \in {} |-> 0]
    /\ failedSent = [k \in {} |-> 0]
    /\ recorded = [t \in {} |-> undefined]
    /\ consumed = {}
    /\ evicted = [adIds |-> {}, triples |-> {}]
    /\ rewritten = {}

-----------------------------------------------------------------------------
(* History of adIdLookup: entries created and render_failed payloads sent *)

Count(f, k) == IF k \in DOMAIN f THEN f[k] ELSE 0

RenderFailedSent(sent) ==
    Cardinality({i \in 1..Len(sent) : sent[i].requestType = "render_failed"})

NoHistory ==
    UNCHANGED <<created, failedSent, recorded, consumed, evicted, rewritten>>

History ==
    /\ LET fresh == (DOMAIN adIdLookup') \ (DOMAIN adIdLookup)
       IN /\ \A k \in fresh : Count(created, k) < MaxCreated
          /\ created' = [k \in (DOMAIN created) \cup fresh |->
                            Count(created, k) + (IF k \in fresh THEN 1 ELSE 0)]
    /\ IF last'.op = "onAdRenderFailed" /\ RenderFailedSent(out') > 0
       THEN failedSent' = Put(failedSent, Str(last'.args.adId),
                              Count(failedSent, Str(last'.args.adId))
                                + RenderFailedSent(out'))
       ELSE failedSent' = failedSent
    /\ UNCHANGED <<recorded, consumed, evicted, rewritten>>

-----------------------------------------------------------------------------
(* The events of the specifications *)

Configs ==
    {undefined,
     Def([options |-> undefined]),
     Def([options |-> Def([site_id |-> undefined])]),
     Def([options |-> Def([site_id |-> Def(SITE_ID)])])}

BidWonEvent(bidderCode, adUnitCode, auctionId, adId, cpm) ==
    [bidderCode |-> bidderCode, adUnitCode |-> adUnitCode,
     auctionId |-> auctionId, adId |-> adId,
     width |-> Def(300), height |-> Def(250),
     cpm |-> cpm, originalCpm |-> Def(1),
     currency |-> Def("USD"), timeToRespond |-> Def(334)]

RenderFailedEvent(adId) ==
    [reason |-> Def("reason"), message |-> Def("value"), adId |-> adId]

TimedOutBid(auctionId, adUnitCode, bidder) ==
    [auctionId |-> auctionId, adUnitCode |-> adUnitCode, bidder |-> bidder]

AdUnit(code, bids, sizes) ==
    [code |-> code,
     bids |-> IF IsUndefined(bids) THEN undefined
              ELSE Def([i \in 1..Len(Val(bids)) |-> [bidder |-> Val(bids)[i]]]),
     sizes |-> sizes]

NoBid(adUnitCode, bidder) == [adUnitCode |-> adUnitCode, bidder |-> bidder]

BidReceived(adUnitCode, bidderCode) ==
    [adUnitCode |-> adUnitCode, bidderCode |-> bidderCode,
     timeToRespond |-> Def(334), originalCpm |-> Def(1), cpm |-> Def(4),
     currency |-> Def("USD"), width |-> Def(300), height |-> Def(250)]

\* a received bid whose price differs from BidReceived's
BidReceivedAt(adUnitCode, bidderCode, cpm) ==
    [BidReceived(adUnitCode, bidderCode) EXCEPT
        !.cpm = cpm, !.timeToRespond = Def(120)]

AuctionEndEvent(auctionId, adUnits, noBids, bidsReceived) ==
    [auctionId |-> auctionId, timeout |-> Def(3000), adUnits |-> adUnits,
     noBids |-> noBids, bidsReceived |-> bidsReceived]

Sizes300x250 == Def(Arr(<<Arr(<<Num(300), Num(250)>>)>>))

\* sequences over S of length at most n
RECURSIVE SeqUpTo(_, _)
SeqUpTo(S, n) ==
    IF n = 0 THEN {<<>>}
    ELSE LET shorter == SeqUpTo(S, n - 1)
         IN shorter \cup {Append(q, x) : q \in shorter, x \in S}

-----------------------------------------------------------------------------
(* Spec: bid-won and render-failed events in full, simple auctions *)

BidWonArgs ==
    {BidWonEvent(b, s, a, i, c) :
        b \in {undefined, Def("b")}, s \in {undefined, Def("s")},
        a \in {undefined, Def("A1")},
        i \in {undefined, Def("X")},
        c \in {undefined, Def(4)}}

RenderFailedArgs == {RenderFailedEvent(i) : i \in {undefined, Def("X"), Def("Y")}}

BidTimeoutArgs ==
    SeqUpTo({TimedOutBid(Def("A1"), Def("s"), Def("b"))}, 1)

AuctionEndArgs ==
    {AuctionEndEvent(Def("A1"),
                     Def(<<AdUnit(Def("s"), Def(<<Def("b")>>), Sizes300x250)>>),
                     Def(<<>>), Def(<<>>))}

Next ==
    \/ \E config \in Configs : enableAnalytics(config) /\ NoHistory
    \/ disableAnalytics /\ NoHistory
    \/ \E args \in BidWonArgs : onBidWon(args) /\ NoHistory
    \/ \E args \in RenderFailedArgs : onAdRenderFailed(args) /\ NoHistory
    \/ \E args \in BidTimeoutArgs : onBidTimeout(args) /\ NoHistory
    \/ \E args \in AuctionEndArgs : onAuctionEnd(args) /\ NoHistory
    \/ Tick /\ NoHistory
    \/ Sweep /\ NoHistory

Spec == Init /\ [][Next]_vars

-----------------------------------------------------------------------------
(* SpecSeeded: Spec, and the unit tests' direct writes into adIdLookup.  No   *)
(* handler stores an entry without bidderCode or adUnitCode; the tests do.    *)

\* caObj.adIdLookup[adId] = {...}, as the render-failed tests set the cache up
seedAdIdLookup(adId, entry) ==
    /\ enabled
    /\ adIdLookup' = Put(adIdLookup, adId, entry)
    /\ UNCHANGED <<enabled, initOptions, now, nextSweep, timeoutCache>>
    /\ Observed("seedAdIdLookup", Def(adId), <<>>, FALSE)

SeededEntries ==
    {[bidderCode |-> b, adUnitCode |-> s, auctionId |-> Def("A1"),
      timeReceived |-> now] :
        b \in {undefined, Def("b")}, s \in {undefined, Def("s")}}

NextSeeded ==
    \/ Next
    \/ \E entry \in SeededEntries : seedAdIdLookup("X", entry) /\ NoHistory

SpecSeeded == Init /\ [][NextSeeded]_vars

-----------------------------------------------------------------------------
(* SpecOnce: the history of adIdLookup, over complete bid-won events *)

BidWonArgsOnce ==
    {BidWonEvent(Def("b"), Def("s"), Def("A1"), i, Def(4)) :
        i \in {Def("X"), Def("Y")}}

RenderFailedArgsOnce == {RenderFailedEvent(i) : i \in {Def("X"), Def("Y")}}

NextOnce ==
    \/ \E config \in Configs : enableAnalytics(config) /\ History
    \/ disableAnalytics /\ History
    \/ \E args \in BidWonArgsOnce : onBidWon(args) /\ History
    \/ \E args \in RenderFailedArgsOnce : onAdRenderFailed(args) /\ History
    \/ \E args \in BidTimeoutArgs : onBidTimeout(args) /\ History
    \/ \E args \in AuctionEndArgs : onAuctionEnd(args) /\ History
    \/ Tick /\ History
    \/ Sweep /\ History

SpecOnce == Init /\ [][NextOnce]_vars

-----------------------------------------------------------------------------
(* SpecAuction: bid timeouts and auction ends in full, at one instant *)

AuctionTriples ==
    {<<Def("A1"), Def("s"), Def("b")>>, <<Def("A1"), Def("t"), Def("b")>>,
     <<Def("A2"), Def("s"), Def("b")>>}

BidTimeoutArgsAuction ==
    SeqUpTo({TimedOutBid(t[1], t[2], t[3]) : t \in AuctionTriples}, 2)

AdUnitsAuction ==
    {AdUnit(Def("s"), Def(<<Def("b"), Def("c")>>), Sizes300x250),
     AdUnit(Def("s"), Def(<<Def("b"), Def("b")>>), undefined),
     AdUnit(Def("t"), Def(<<Def("b")>>), Sizes300x250)}

NoBidsAuction ==
    {undefined, Def(<<>>), Def(<<NoBid(Def("s"), Def("b"))>>),
     Def(<<NoBid(Def("t"), Def("c"))>>)}

BidsReceivedAuction ==
    {undefined, Def(<<>>), Def(<<BidReceived(Def("s"), Def("c"))>>),
     Def(<<BidReceived(Def("s"), Def("c")),
           BidReceivedAt(Def("s"), Def("c"), Def(5))>>)}

AuctionEndArgsAuction ==
    {AuctionEndEvent(Def("A1"), Def(units), noBids, bidsReceived) :
        units \in SeqUpTo(AdUnitsAuction, 2),
        noBids \in NoBidsAuction, bidsReceived \in BidsReceivedAuction}
    \cup {AuctionEndEvent(undefined,
                          Def(<<AdUnit(Def("s"), Def(<<Def("b")>>), Sizes300x250)>>),
                          Def(<<>>), Def(<<>>)),
          AuctionEndEvent(Def("A1"), undefined, Def(<<>>), Def(<<>>)),
          AuctionEndEvent(Def("A1"),
                          Def(<<AdUnit(Def("s"), undefined, Sizes300x250)>>),
                          Def(<<>>), Def(<<>>))}

BidWonArgsAuction ==
    {BidWonEvent(Def("b"), Def("s"), Def("A1"), Def("X"), Def(4))}

RenderFailedArgsAuction == {RenderFailedEvent(Def("X"))}

NextAuction ==
    \/ \E config \in Configs : enableAnalytics(config) /\ NoHistory
    \/ \E args \in BidWonArgsAuction : onBidWon(args) /\ NoHistory
    \/ \E args \in RenderFailedArgsAuction : onAdRenderFailed(args) /\ NoHistory
    \/ \E args \in BidTimeoutArgsAuction : onBidTimeout(args) /\ NoHistory
    \/ \E args \in AuctionEndArgsAuction : onAuctionEnd(args) /\ NoHistory

SpecAuction == Init /\ [][NextAuction]_vars

-----------------------------------------------------------------------------
(* SpecKeys: identifiers that contain the '-' of the lookup key *)

KeyTriples ==
    {<<Def("A"), s, b>> : s \in {Def("s"), Def("s-b")}, b \in {Def("c"), Def("b-c")}}

BidTimeoutArgsKeys ==
    SeqUpTo({TimedOutBid(t[1], t[2], t[3]) : t \in KeyTriples}, 2)

AuctionEndArgsKeys ==
    {AuctionEndEvent(Def("A"),
                     Def(<<AdUnit(t[2], Def(<<t[3]>>), Sizes300x250)>>),
                     Def(<<>>), Def(<<>>)) : t \in KeyTriples}

NextKeys ==
    \/ \E config \in Configs : enableAnalytics(config) /\ NoHistory
    \/ disableAnalytics /\ NoHistory
    \/ \E args \in BidWonArgsAuction : onBidWon(args) /\ NoHistory
    \/ \E args \in RenderFailedArgsAuction : onAdRenderFailed(args) /\ NoHistory
    \/ \E args \in BidTimeoutArgsKeys : onBidTimeout(args) /\ NoHistory
    \/ \E args \in AuctionEndArgsKeys : onAuctionEnd(args) /\ NoHistory
    \/ Tick /\ NoHistory
    \/ Sweep /\ NoHistory

SpecKeys == Init /\ [][NextKeys]_vars

-----------------------------------------------------------------------------
(* SpecClean: cleanCache called directly on a cache written directly, as the  *)
(* cache tests do, with entries older and younger than the time passed in     *)

\* cacheObj[key] = {timeReceived: ...}, as the cache tests set a cache up
seedTimeoutCache(key, timeReceived) ==
    /\ timeoutCache' = Put(timeoutCache, key, [timeReceived |-> timeReceived])
    /\ UNCHANGED <<enabled, initOptions, now, nextSweep, adIdLookup>>
    /\ Observed("seedTimeoutCache", Def(key), <<>>, FALSE)

\* caObj.cleanCache(cacheObj, currTime), as the test calls it
callCleanCache(currTime) ==
    /\ timeoutCache' = cleanCache(timeoutCache, currTime)
    /\ UNCHANGED <<enabled, initOptions, now, nextSweep, adIdLookup>>
    /\ Observed("cleanCache", Def(currTime), <<>>, FALSE)

TimesClean == {i * TimeStep : i \in 0..(MaxTicks + 1)}

KeysClean == {"foo", "bar", "keep"}

NextClean ==
    \/ \E key \in KeysClean, timeReceived \in TimesClean :
          seedTimeoutCache(key, timeReceived) /\ NoHistory
    \/ \E currTime \in TimesClean : callCleanCache(currTime) /\ NoHistory

SpecClean == Init /\ [][NextClean]_vars

-----------------------------------------------------------------------------
(* SpecEnable: enabling with and without site_id, with two site ids *)

ConfigsEnable ==
    Configs \cup {Def([options |-> Def([site_id |-> Def(SITE_ID + 1)])])}

NextEnable ==
    \/ \E config \in ConfigsEnable : enableAnalytics(config) /\ NoHistory
    \/ disableAnalytics /\ NoHistory
    \/ \E args \in BidWonArgsAuction : onBidWon(args) /\ NoHistory
    \/ \E args \in RenderFailedArgsAuction : onAdRenderFailed(args) /\ NoHistory
    \/ \E args \in BidTimeoutArgs : onBidTimeout(args) /\ NoHistory
    \/ \E args \in AuctionEndArgs : onAuctionEnd(args) /\ NoHistory
    \/ Tick /\ NoHistory
    \/ Sweep /\ NoHistory

SpecEnable == Init /\ [][NextEnable]_vars

-----------------------------------------------------------------------------
(* SpecSizes: widths, heights and declared sizes that are absent, numbers,    *)
(* strings or non-integral; createAdSize called directly, as its test does    *)

\* Values besides Num(n) and Arr(s): a string, and the fraction n/d
Txt(s) == [txt |-> s]
Frac(n, d) == [frac |-> <<n, d>>]

\* caObj.createAdSize(width, height), as the test calls it
callCreateAdSize(width, height) ==
    /\ UNCHANGED <<enabled, initOptions, now, nextSweep, adIdLookup, timeoutCache>>
    /\ Observed("createAdSize",
                [width |-> width, height |-> height,
                 returned |-> createAdSize(width, height)],
                <<>>, FALSE)

SizeInputs ==
    {undefined, Def(Num(1)), Def(Num(2)), Def(Num(300)),
     Def(Txt("foo")), Def(Txt("bar")), Def(Frac(3, 2))}

BidWonArgsSizes ==
    {[BidWonEvent(Def("b"), Def("s"), Def("A1"), Def("X"), Def(4)) EXCEPT
         !.width = w, !.height = h] : w, h \in SizeInputs}

Pair300x250 == Arr(<<Num(300), Num(250)>>)
Pair728x90 == Arr(<<Num(728), Num(90)>>)

DeclaredSizesInputs ==
    {undefined,
     Def(Arr(<<>>)),
     Def(Pair300x250),
     Def(Arr(<<Num(300)>>)),
     Def(Arr(<<Pair300x250, Pair300x250>>)),
     Def(Arr(<<Pair728x90, Pair300x250>>)),
     Def(Arr(<<Arr(<<Num(300)>>), Pair300x250>>)),
     Def(Arr(<<Pair728x90, Arr(<<Num(1), Num(2), Num(3)>>), Pair300x250>>)),
     Def(Arr(<<Pair300x250, Num(5)>>)),
     Def(Arr(<<Arr(<<Txt("foo"), Num(250)>>), Pair300x250>>)),
     Def(Arr(<<Txt("foo"), Txt("bar")>>))}

BidsReceivedSizes ==
    {Def(<<>>),
     Def(<<[BidReceived(Def("s"), Def("b")) EXCEPT
               !.width = Def(Num(300)), !.height = Def(Num(250))]>>),
     Def(<<[BidReceived(Def("s"), Def("b")) EXCEPT
               !.width = undefined, !.height = Def(Txt("foo"))]>>)}

AuctionEndArgsSizes ==
    {AuctionEndEvent(Def("A1"),
                     Def(<<AdUnit(Def("s"), Def(<<Def("b"), Def("c")>>), sizes)>>),
                     Def(<<>>), bidsReceived) :
        sizes \in DeclaredSizesInputs, bidsReceived \in BidsReceivedSizes}
    \cup
    {AuctionEndEvent(Def("A1"),
                     Def(<<AdUnit(Def("s"), Def(<<Def("b")>>), sizes),
                           AdUnit(Def("t"), Def(<<Def("c")>>), Def(Pair728x90))>>),
                     Def(<<>>), Def(<<>>)) :
        sizes \in DeclaredSizesInputs}

NextSizes ==
    \/ \E config \in Configs : enableAnalytics(config) /\ NoHistory
    \/ \E width, height \in SizeInputs :
          callCreateAdSize(width, height) /\ NoHistory
    \/ \E args \in BidWonArgsSizes : onBidWon(args) /\ NoHistory
    \/ \E args \in AuctionEndArgsSizes : onAuctionEnd(args) /\ NoHistory

SpecSizes == Init /\ [][NextSizes]_vars

-----------------------------------------------------------------------------
(* SpecLookupKey: getLookupKey called on its own *)

\* getLookupKey(auctionId, adUnitCode, bidderCode) called directly; it reads
\* and writes no state of the adapter
callGetLookupKey(auctionId, adUnitCode, bidderCode) ==
    /\ UNCHANGED <<enabled, initOptions, now, nextSweep, adIdLookup, timeoutCache>>
    /\ Observed("getLookupKey",
                [auctionId |-> auctionId, adUnitCode |-> adUnitCode,
                 bidderCode |-> bidderCode,
                 returned |-> getLookupKey(auctionId, adUnitCode, bidderCode)],
                <<>>, FALSE)

\* an absent component, the string 'undefined', plain identifiers, and one
\* identifier that contains the separator
KeyComponents ==
    {undefined, Def("undefined"), Def("foo"), Def("bar"), Def("baz"),
     Def("a"), Def("b"), Def("ab"), Def("a-b")}

NextLookupKey ==
    \/ \E auctionId, adUnitCode, bidderCode \in KeyComponents :
          callGetLookupKey(auctionId, adUnitCode, bidderCode) /\ NoHistory

SpecLookupKey == Init /\ [][NextLookupKey]_vars

-----------------------------------------------------------------------------
(* SpecAttribution: SpecKeys with a second auction, and the history of which  *)
(* bid requests timed out, kept per <<auctionId, adUnitCode, bidder>> and not *)
(* per lookup key                                                             *)

\* the triples of the entries onBidTimeout is given
TimedOutTriples(list) ==
    {<<list[i].auctionId, list[i].adUnitCode, list[i].bidder>> : i \in 1..Len(list)}

\* the triples of the bid requests an auction-end event declares
DeclaredTriples(args) ==
    {<<args.auctionId, Val(args.adUnits)[i].code,
       Val(Val(args.adUnits)[i].bids)[j].bidder>> :
        <<i, j>> \in {<<i, j>> \in (1..Len(Val(args.adUnits))) \X (1..2) :
                        j <= Len(Val(Val(args.adUnits)[i].bids))}}

\* onBidTimeout records its triples at Date.now(); onAuctionEnd uses up the
\* recorded triples it declares; the sweep ages the record as it ages the cache
TimeoutHistory ==
    /\ IF last'.op = "onBidTimeout"
       THEN LET listed == TimedOutTriples(last'.args)
            IN /\ recorded' = [t \in (DOMAIN recorded) \cup listed |->
                                 IF t \in listed THEN [timeReceived |-> now]
                                 ELSE recorded[t]]
               /\ consumed' = consumed \ listed
       ELSE IF last'.op = "onAuctionEnd"
       THEN LET declared == DeclaredTriples(last'.args)
            IN /\ recorded' = [t \in (DOMAIN recorded) \ declared |-> recorded[t]]
               /\ consumed' = consumed \cup (declared \cap DOMAIN recorded)
       ELSE IF last'.op = "sweep"
       THEN /\ recorded' = cleanCache(recorded, now)
            /\ consumed' = consumed
       ELSE UNCHANGED <<recorded, consumed>>

Attribution ==
    /\ UNCHANGED <<created, failedSent, evicted, rewritten>>
    /\ TimeoutHistory

\* two triples of auction A with one lookup key, a third of auction A, and
\* one of another auction
AttributionTriples ==
    {<<Def("A"), Def("s"), Def("b-c")>>, <<Def("A"), Def("s-b"), Def("c")>>,
     <<Def("A"), Def("s"), Def("c")>>, <<Def("B"), Def("s"), Def("c")>>}

BidTimeoutArgsAttribution ==
    SeqUpTo({TimedOutBid(t[1], t[2], t[3]) : t \in AttributionTriples}, 1)

AuctionEndArgsAttribution ==
    {AuctionEndEvent(t[1],
                     Def(<<AdUnit(t[2], Def(<<t[3]>>), Sizes300x250)>>),
                     Def(<<>>), Def(<<>>)) : t \in AttributionTriples}

NextAttribution ==
    \/ \E config \in Configs : enableAnalytics(config) /\ Attribution
    \/ disableAnalytics /\ Attribution
    \/ \E args \in BidWonArgsAuction : onBidWon(args) /\ Attribution
    \/ \E args \in RenderFailedArgsAuction : onAdRenderFailed(args) /\ Attribution
    \/ \E args \in BidTimeoutArgsAttribution : onBidTimeout(args) /\ Attribution
    \/ \E args \in AuctionEndArgsAttribution : onAuctionEnd(args) /\ Attribution
    \/ Tick /\ Attribution
    \/ Sweep /\ Attribution

SpecAttribution == Init /\ [][NextAttribution]_vars

-----------------------------------------------------------------------------
(* SpecEviction: timeouts and won bids that the sweep removes or that are     *)
(* written again, with the history of both                                    *)

\* evicted holds what a sweep removed until onBidWon or onBidTimeout writes it
\* again; rewritten holds the recorded triples whose time was replaced
EvictionHistory ==
    /\ IF last'.op = "sweep"
       THEN evicted' = [adIds |-> evicted.adIds \cup dropped'.adIdLookup,
                        triples |-> evicted.triples
                                      \cup {t \in DOMAIN recorded :
                                               getLookupKey(t[1], t[2], t[3])
                                                  \in dropped'.timeoutCache}]
       ELSE IF last'.op = "onBidTimeout"
       THEN evicted' = [evicted EXCEPT
                          !.triples = @ \ TimedOutTriples(last'.args)]
       ELSE IF last'.op = "onBidWon"
       THEN evicted' = [evicted EXCEPT !.adIds = @ \ DOMAIN adIdLookup']
       ELSE evicted' = evicted
    /\ IF last'.op = "onBidTimeout"
       THEN LET listed == TimedOutTriples(last'.args)
            IN rewritten' = (rewritten \ listed)
                               \cup {t \in listed \cap DOMAIN recorded :
                                        recorded[t].timeReceived < now}
       ELSE rewritten' = rewritten \cap DOMAIN recorded'

Eviction ==
    /\ UNCHANGED <<created, failedSent>>
    /\ TimeoutHistory
    /\ EvictionHistory

\* two triples of auction A with one lookup key
EvictionTriples ==
    {<<Def("A"), Def("s"), Def("b-c")>>, <<Def("A"), Def("s-b"), Def("c")>>}

BidTimeoutArgsEviction ==
    SeqUpTo({TimedOutBid(t[1], t[2], t[3]) : t \in EvictionTriples}, 1)

AuctionEndArgsEviction ==
    {AuctionEndEvent(t[1],
                     Def(<<AdUnit(t[2], Def(<<t[3]>>), Sizes300x250)>>),
                     Def(<<>>), Def(<<>>)) : t \in EvictionTriples}

NextEviction ==
    \/ \E config \in Configs : enableAnalytics(config) /\ Eviction
    \/ \E args \in BidWonArgsAuction : onBidWon(args) /\ Eviction
    \/ \E args \in RenderFailedArgsAuction : onAdRenderFailed(args) /\ Eviction
    \/ \E args \in BidTimeoutArgsEviction : onBidTimeout(args) /\ Eviction
    \/ \E args \in AuctionEndArgsEviction : onAuctionEnd(args) /\ Eviction
    \/ Tick /\ Eviction
    \/ Sweep /\ Eviction

SpecEviction == Init /\ [][NextEviction]_vars

-----------------------------------------------------------------------------
(* Claims about onBidWon and onAdRenderFailed *)

\* bidderCode, adUnitCode and auctionId are all present on a bid-won event
BidWonComplete(args) ==
    /\ ~IsUndefined(args.bidderCode)
    /\ ~IsUndefined(args.adUnitCode)
    /\ ~IsUndefined(args.auctionId)

\* the adIdLookup entry a bid-won event received at time t describes
EntryOf(args, t) ==
    [bidderCode |-> args.bidderCode, adUnitCode |-> args.adUnitCode,
     auctionId |-> args.auctionId, timeReceived |-> t]

\* the cache keeps every entry it holds, unchanged
Kept(cache, cacheAfter) ==
    \A k \in DOMAIN cache : k \in DOMAIN cacheAfter /\ cacheAfter[k] = cache[k]

\* C1: a bid-won event with bidderCode, adUnitCode and auctionId dispatches
\* exactly one payload: requestType bid_won, the event's auctionId, one ad-slot
\* (the event's adUnitCode) with one bid (the event's bidderCode) whose
\* eventCodes is exactly [win] and whose cpm, originalCpm, currency and
\* timeToRespond are the event's.
C1_BidWonDispatch ==
    (last.op = "onBidWon" /\ BidWonComplete(last.args)) =>
        /\ Len(out) = 1
        /\ out[1].requestType = "bid_won"
        /\ out[1].auction.auctionId = last.args.auctionId
        /\ DOMAIN out[1].adUnits = {Val(last.args.adUnitCode)}
        /\ LET bids == out[1].adUnits[Val(last.args.adUnitCode)].bids
           IN /\ DOMAIN bids = {Val(last.args.bidderCode)}
              /\ LET bid == bids[Val(last.args.bidderCode)]
                 IN /\ bid.eventCodes = <<CNVR_WIN>>
                    /\ bid.cpm = last.args.cpm
                    /\ bid.originalCpm = last.args.originalCpm
                    /\ bid.currency = last.args.currency
                    /\ bid.timeToRespond = last.args.timeToRespond

C1_Witness ==
    /\ last.op = "onBidWon"
    /\ BidWonComplete(last.args)
    /\ Len(out) = 1
    /\ last.args.cpm # last.args.originalCpm

\* C2: a bid-won event that lacks bidderCode, adUnitCode or auctionId
\* dispatches nothing and leaves adIdLookup and timeoutCache as they were.
C2_IncompleteBidWonIgnored ==
    [][(last'.op = "onBidWon" /\ ~BidWonComplete(last'.args)) =>
          /\ out' = <<>>
          /\ adIdLookup' = adIdLookup
          /\ timeoutCache' = timeoutCache]_vars

\* C3: adIdLookup is first-write-wins.  A complete bid-won event for an adId
\* without an entry creates the entry from the event with timeReceived = now; for
\* an adId that has an entry it leaves the entry unchanged and still dispatches
\* its bid_won payload.  onBidWon, onBidTimeout and onAuctionEnd never alter or
\* remove an existing entry.
C3_FirstWriteWins ==
    [][/\ (last'.op = "onBidWon" /\ BidWonComplete(last'.args)) =>
             LET k == Str(last'.args.adId)
             IN /\ k \in DOMAIN adIdLookup'
                /\ k \notin DOMAIN adIdLookup =>
                      adIdLookup'[k] = EntryOf(last'.args, now)
                /\ k \in DOMAIN adIdLookup =>
                      /\ adIdLookup'[k] = adIdLookup[k]
                      /\ Len(out') = 1
                      /\ out'[1].requestType = "bid_won"
       /\ last'.op \in {"onBidWon", "onBidTimeout", "onAuctionEnd"} =>
             Kept(adIdLookup, adIdLookup')]_vars

\* a second bid-won event found an entry that differs from its own data
C3_Witness ==
    /\ last.op = "onBidWon"
    /\ BidWonComplete(last.args)
    /\ Len(out) = 1
    /\ Str(last.args.adId) \in DOMAIN adIdLookup
    /\ adIdLookup[Str(last.args.adId)].auctionId # last.args.auctionId
    /\ adIdLookup[Str(last.args.adId)].timeReceived < now

\* the entry has both bidderCode and adUnitCode
EntryUsable(entry) ==
    ~IsUndefined(entry.bidderCode) /\ ~IsUndefined(entry.adUnitCode)

\* C4: a render-failed event whose adId has an adIdLookup entry with bidderCode
\* and adUnitCode removes the entry and dispatches exactly one render_failed
\* payload with the entry's auctionId, ad-slot and bidder, whose single bid has
\* eventCodes exactly [render-failed].
C4_RenderFailedCorrelates ==
    [][(/\ last'.op = "onAdRenderFailed"
        /\ ~IsUndefined(last'.args.adId)
        /\ Str(last'.args.adId) \in DOMAIN adIdLookup
        /\ EntryUsable(adIdLookup[Str(last'.args.adId)])) =>
          LET entry == adIdLookup[Str(last'.args.adId)]
          IN /\ Str(last'.args.adId) \notin DOMAIN adIdLookup'
             /\ Len(out') = 1
             /\ out'[1].requestType = "render_failed"
             /\ out'[1].auction.auctionId = entry.auctionId
             /\ DOMAIN out'[1].adUnits = {Val(entry.adUnitCode)}
             /\ DOMAIN out'[1].adUnits[Val(entry.adUnitCode)].bids
                    = {Val(entry.bidderCode)}
             /\ out'[1].adUnits[Val(entry.adUnitCode)]
                    .bids[Val(entry.bidderCode)].eventCodes
                    = <<CNVR_RENDER_FAILED>>]_vars

C4_Witness ==
    /\ last.op = "onAdRenderFailed"
    /\ Len(out) = 1
    /\ out[1].requestType = "render_failed"
    /\ Str(last.args.adId) \notin DOMAIN adIdLookup

\* C5: a render-failed event without adId, or whose adId has no adIdLookup
\* entry, dispatches nothing and leaves adIdLookup unchanged.
C5_UnresolvedRenderFailedIgnored ==
    [][(/\ last'.op = "onAdRenderFailed"
        /\ \/ IsUndefined(last'.args.adId)
           \/ Str(last'.args.adId) \notin DOMAIN adIdLookup) =>
          /\ out' = <<>>
          /\ adIdLookup' = adIdLookup]_vars

\* a render-failed event without adId left the entries of other adIds, and
\* the entry stored under the property name 'undefined', in place
C5_Witness ==
    /\ last.op = "onAdRenderFailed"
    /\ IsUndefined(last.args.adId)
    /\ out = <<>>
    /\ DOMAIN adIdLookup = {"X", "undefined"}

\* C6: a render-failed event whose adId resolves to an adIdLookup entry
\* without bidderCode or without adUnitCode removes the entry and dispatches
\* nothing.
C6_ConsumeThenFail ==
    [][(/\ last'.op = "onAdRenderFailed"
        /\ ~IsUndefined(last'.args.adId)
        /\ Str(last'.args.adId) \in DOMAIN adIdLookup
        /\ ~EntryUsable(adIdLookup[Str(last'.args.adId)])) =>
          /\ Str(last'.args.adId) \notin DOMAIN adIdLookup'
          /\ out' = <<>>]_vars

C6_Witness ==
    /\ last.op = "onAdRenderFailed"
    /\ Str(last.args.adId) \in dropped.adIdLookup
    /\ Str(last.args.adId) \notin DOMAIN adIdLookup
    /\ out = <<>>

\* C7: an adIdLookup entry is consumed at most once: for every adId, the
\* render_failed payloads dispatched never outnumber the entries created.
C7_ConsumedAtMostOnce ==
    \A k \in DOMAIN failedSent : failedSent[k] <= Count(created, k)

\* a second render-failed event for a consumed adId dispatched nothing
C7_Witness ==
    /\ last.op = "onAdRenderFailed"
    /\ last.args.adId = Def("X")
    /\ out = <<>>
    /\ Count(created, "X") = 1
    /\ Count(failedSent, "X") = 1

\* the entry was created again, and consumed again
C7_WitnessRecreated ==
    /\ Count(created, "X") = 2
    /\ Count(failedSent, "X") = 2

-----------------------------------------------------------------------------
(* Claims about onBidTimeout and onAuctionEnd *)

KeyOf(timedOutBid) ==
    getLookupKey(timedOutBid.auctionId, timedOutBid.adUnitCode, timedOutBid.bidder)

\* C8: after onBidTimeout, timeoutCache holds for each listed entry an entry
\* under its key with timeReceived = now; entries under other keys are
\* unchanged, adIdLookup is unchanged and nothing is dispatched.  Two listed
\* entries of one auction with different ad-slots are two cache entries; an
\* empty list changes nothing and raises no error.
C8_TimeoutsCached ==
    [][last'.op = "onBidTimeout" =>
          LET list == last'.args
              keys == {KeyOf(list[i]) : i \in 1..Len(list)}
          IN /\ DOMAIN timeoutCache' = (DOMAIN timeoutCache) \cup keys
             /\ \A k \in keys : timeoutCache'[k].timeReceived = now
             /\ \A k \in (DOMAIN timeoutCache) \ keys :
                   timeoutCache'[k] = timeoutCache[k]
             /\ adIdLookup' = adIdLookup
             /\ out' = <<>>
             /\ ~threw'
             /\ \A i, j \in 1..Len(list) :
                   (/\ list[i].auctionId = list[j].auctionId
                    /\ list[i].adUnitCode # list[j].adUnitCode) =>
                      KeyOf(list[i]) # KeyOf(list[j])
             /\ list = <<>> => timeoutCache' = timeoutCache]_vars

\* the bid requests an auction-end event declares, as <<ad-slot code, bidder>>
Declared(args) ==
    {<<Val(args.adUnits)[i].code, Val(Val(args.adUnits)[i].bids)[j].bidder>> :
        <<i, j>> \in {<<i, j>> \in (1..Len(Val(args.adUnits))) \X (1..2) :
                        j <= Len(Val(Val(args.adUnits)[i].bids))}}

\* every declared ad unit of the event has an array of bids
BidsAreArrays(args) ==
    \A i \in 1..Len(Val(args.adUnits)) : ~IsUndefined(Val(args.adUnits)[i].bids)

Codes(eventCodes) == {eventCodes[i] : i \in 1..Len(eventCodes)}

\* C9: for every bid request an auction-end event declares, the dispatched
\* report's BidReport for that ad-slot and bidder has the timeout code, and the
\* timeoutCache entry is gone, if timeoutCache held an entry under its key
\* when the event arrived; otherwise the BidReport has no timeout code.
C9_TimeoutsReported ==
    [][(last'.op = "onAuctionEnd" /\ Len(out') = 1) =>
          \A d \in Declared(last'.args) :
             LET key == getLookupKey(last'.args.auctionId, d[1], d[2])
                 bid == out'[1].adUnits[Str(d[1])].bids[Str(d[2])]
             IN IF key \in DOMAIN timeoutCache
                THEN /\ HasBid(out'[1], d[1], d[2])
                     /\ CNVR_TIMEOUT \in Codes(bid.eventCodes)
                     /\ key \notin DOMAIN timeoutCache'
                ELSE HasBid(out'[1], d[1], d[2]) =>
                        CNVR_TIMEOUT \notin Codes(bid.eventCodes)]_vars

\* C10: an auction-end event with an auctionId and an array adUnits dispatches
\* exactly one payload: requestType auction_end, the event's auctionId, one
\* AdUnitReport per distinct declared ad-slot code, each with one BidReport
\* per distinct bidder declared on that slot.
C10_AuctionEndDispatch ==
    [][(/\ last'.op = "onAuctionEnd"
        /\ ~IsUndefined(last'.args.auctionId)
        /\ ~IsUndefined(last'.args.adUnits)
        /\ BidsAreArrays(last'.args)) =>
          /\ Len(out') = 1
          /\ out'[1].requestType = "auction_end"
          /\ out'[1].auction.auctionId = last'.args.auctionId
          /\ DOMAIN out'[1].adUnits = {Str(d[1]) : d \in Declared(last'.args)}
          /\ \A code \in DOMAIN out'[1].adUnits :
                DOMAIN out'[1].adUnits[code].bids =
                   {Str(d[2]) : d \in {e \in Declared(last'.args) : Str(e[1]) = code}}]_vars

-----------------------------------------------------------------------------
(* Claims about the guards and the phases of onAuctionEnd *)

\* C11: an auction-end event without auctionId dispatches nothing and leaves
\* the caches as they were: no timeoutCache entry is consumed.
C11_NoAuctionIdIgnored ==
    [][(last'.op = "onAuctionEnd" /\ IsUndefined(last'.args.auctionId)) =>
          /\ out' = <<>>
          /\ timeoutCache' = timeoutCache
          /\ adIdLookup' = adIdLookup]_vars

\* C12: an auction-end event whose adUnits is not an array dispatches no
\* payload and modifies neither cache, nor anything else the handlers read;
\* the event after it is handled as usual (a complete bid-won event
\* dispatches its payload).
C12_NoAdUnitsIgnored ==
    [][/\ (last'.op = "onAuctionEnd" /\ IsUndefined(last'.args.adUnits)) =>
             /\ out' = <<>>
             /\ timeoutCache' = timeoutCache
             /\ adIdLookup' = adIdLookup
             /\ enabled' = enabled
             /\ initOptions' = initOptions
       /\ (/\ last.op = "onAuctionEnd"
           /\ IsUndefined(last.args.adUnits)
           /\ last'.op = "onBidWon"
           /\ BidWonComplete(last'.args)) =>
             /\ Len(out') = 1
             /\ out'[1].requestType = "bid_won"]_vars

\* the event without adUnits found cached timeouts and left them in place
C12_Witness ==
    /\ last.op = "onAuctionEnd"
    /\ IsUndefined(last.args.adUnits)
    /\ out = <<>>
    /\ timeoutCache # EmptyObject
    /\ dropped.timeoutCache = {}

\* the elements of a list that may be undefined
Records(list) == IF IsUndefined(list) THEN <<>> ELSE Val(list)

\* the <<ad-slot code, bidder>> pairs of the noBids and bidsReceived records
NoBidPairs(args) ==
    {<<Records(args.noBids)[i].adUnitCode, Records(args.noBids)[i].bidder>> :
        i \in 1..Len(Records(args.noBids))}

ReceivedPairs(args) ==
    {<<Records(args.bidsReceived)[i].adUnitCode,
       Records(args.bidsReceived)[i].bidderCode>> :
        i \in 1..Len(Records(args.bidsReceived))}

\* how often a value occurs in a sequence
Occurrences(seq, v) == Cardinality({i \in 1..Len(seq) : seq[i] = v})

\* the BidReport of a pair in a payload
ReportOf(payload, d) == payload.adUnits[Str(d[1])].bids[Str(d[2])]

\* C13: event-codes are additive and ordered by phase.  In a dispatched
\* auction_end report, a declared bidder with a cached timeout that also
\* appears in noBids (and has no received bid) has the timeout code first and
\* the no-bid code after it, timeToRespond 0, and no cpm, originalCpm,
\* currency or adSize.
C13_TimeoutThenNoBid ==
    [][(last'.op = "onAuctionEnd" /\ Len(out') = 1) =>
          \A d \in Declared(last'.args) :
             (/\ getLookupKey(last'.args.auctionId, d[1], d[2])
                    \in DOMAIN timeoutCache
              /\ d \in NoBidPairs(last'.args)
              /\ d \notin ReceivedPairs(last'.args)) =>
                /\ HasBid(out'[1], d[1], d[2])
                /\ LET bid == ReportOf(out'[1], d)
                   IN /\ Len(bid.eventCodes) >= 2
                      /\ bid.eventCodes[1] = CNVR_TIMEOUT
                      /\ CNVR_NO_BID \in Codes(Tail(bid.eventCodes))
                      /\ bid.timeToRespond = Def(0)
                      /\ IsUndefined(bid.cpm)
                      /\ IsUndefined(bid.originalCpm)
                      /\ IsUndefined(bid.currency)
                      /\ IsUndefined(bid.adSize)]_vars

\* C14: in a dispatched auction_end report, the BidReport of every declared
\* pair named by noBids records (and by no received bid) has the no-bid code
\* once per record and timeToRespond 0.
C14_NoBidsReported ==
    [][(last'.op = "onAuctionEnd" /\ Len(out') = 1) =>
          \A d \in (Declared(last'.args) \cap NoBidPairs(last'.args))
                      \ ReceivedPairs(last'.args) :
             /\ HasBid(out'[1], d[1], d[2])
             /\ LET bid == ReportOf(out'[1], d)
                    list == Records(last'.args.noBids)
                IN /\ Occurrences(bid.eventCodes, CNVR_NO_BID) =
                         Cardinality({i \in 1..Len(list) :
                            <<list[i].adUnitCode, list[i].bidder>> = d})
                   /\ bid.timeToRespond = Def(0)]_vars

\* the BidReport carries the data of a bidsReceived record
CarriesBid(bid, record) ==
    /\ bid.timeToRespond = record.timeToRespond
    /\ bid.originalCpm = record.originalCpm
    /\ bid.cpm = record.cpm
    /\ bid.currency = record.currency
    /\ bid.adSize = Def([w |-> record.width, h |-> record.height])

\* the BidReport carries no data of a received bid
CarriesNoBid(bid) ==
    /\ IsUndefined(bid.cpm)
    /\ IsUndefined(bid.originalCpm)
    /\ IsUndefined(bid.currency)
    /\ IsUndefined(bid.adSize)

\* the positions of the bidsReceived records of a pair
ReceivedAt(args, d) ==
    {i \in 1..Len(Records(args.bidsReceived)) :
        <<Records(args.bidsReceived)[i].adUnitCode,
          Records(args.bidsReceived)[i].bidderCode>> = d}

Last(S) == CHOOSE i \in S : \A j \in S : j <= i

\* C15, as stated: in a dispatched auction_end report, the BidReport of every
\* declared pair has, for each bidsReceived record of the pair, the bid code
\* and that record's timeToRespond, originalCpm, cpm, currency and adSize;
\* BidReports of declared bidders without a received bid carry none of these.
C15_EachBidReceivedReported ==
    [][(last'.op = "onAuctionEnd" /\ Len(out') = 1) =>
          \A d \in Declared(last'.args) :
             HasBid(out'[1], d[1], d[2]) =>
                LET bid == ReportOf(out'[1], d)
                    list == Records(last'.args.bidsReceived)
                IN /\ \A i \in ReceivedAt(last'.args, d) :
                         /\ CNVR_BID \in Codes(bid.eventCodes)
                         /\ CarriesBid(bid, list[i])
                   /\ ReceivedAt(last'.args, d) = {} => CarriesNoBid(bid)]_vars

\* C15, amended: the BidReport has the bid code once per bidsReceived record
\* of the pair and carries the data of the last of these records.
C15_LastBidReceivedReported ==
    [][(last'.op = "onAuctionEnd" /\ Len(out') = 1) =>
          \A d \in Declared(last'.args) :
             HasBid(out'[1], d[1], d[2]) =>
                LET bid == ReportOf(out'[1], d)
                    list == Records(last'.args.bidsReceived)
                    at == ReceivedAt(last'.args, d)
                IN /\ Occurrences(bid.eventCodes, CNVR_BID) = Cardinality(at)
                   /\ at # {} => CarriesBid(bid, list[Last(at)])
                   /\ at = {} => CarriesNoBid(bid)]_vars

\* two received bids of one pair with different prices were reported, next to
\* a bidder on the same slot without a received bid
C15_Witness ==
    /\ last.op = "onAuctionEnd"
    /\ Len(out) = 1
    /\ \E d \in Declared(last.args) :
          /\ Cardinality(ReceivedAt(last.args, d)) = 2
          /\ HasBid(out[1], d[1], d[2])
          /\ ReportOf(out[1], d).cpm = Def(5)
    /\ \E d \in Declared(last.args) :
          /\ ReceivedAt(last.args, d) = {}
          /\ HasBid(out[1], d[1], d[2])

\* some noBids or bidsReceived record names a pair that adUnits did not declare
HasUndeclaredRecord(args) ==
    (NoBidPairs(args) \cup ReceivedPairs(args)) \ Declared(args) # {}

\* the event has an auctionId, an array adUnits and arrays of declared bids
WellDeclared(args) ==
    /\ ~IsUndefined(args.auctionId)
    /\ ~IsUndefined(args.adUnits)
    /\ BidsAreArrays(args)

\* C16: a noBids or bidsReceived record naming a pair that adUnits did not
\* declare is skipped: the payload is still dispatched exactly once, holds
\* only the declared ad-slots and bidders, and reports the records of the
\* declared pairs.
C16_UndeclaredRecordSkipped ==
    [][(/\ last'.op = "onAuctionEnd"
        /\ WellDeclared(last'.args)
        /\ ~IsUndefined(last'.args.noBids)
        /\ ~IsUndefined(last'.args.bidsReceived)
        /\ HasUndeclaredRecord(last'.args)) =>
          /\ Len(out') = 1
          /\ \A code \in DOMAIN out'[1].adUnits :
                \A bidder \in DOMAIN out'[1].adUnits[code].bids :
                   \E d \in Declared(last'.args) :
                      Str(d[1]) = code /\ Str(d[2]) = bidder
          /\ \A d \in Declared(last'.args) :
                HasBid(out'[1], d[1], d[2]) =>
                   /\ d \in NoBidPairs(last'.args) =>
                         CNVR_NO_BID \in Codes(ReportOf(out'[1], d).eventCodes)
                   /\ d \in ReceivedPairs(last'.args) =>
                         CNVR_BID \in Codes(ReportOf(out'[1], d).eventCodes)]_vars

\* C17: when noBids or bidsReceived is not an array, the auction_end payload
\* is still dispatched exactly once, with the declared ad-slots and bidders,
\* the matched timeouts (whose timeoutCache entries are consumed) and the
\* records of the list that is an array.
C17_MissingListTolerated ==
    [][(/\ last'.op = "onAuctionEnd"
        /\ WellDeclared(last'.args)
        /\ \/ IsUndefined(last'.args.noBids)
           \/ IsUndefined(last'.args.bidsReceived)) =>
          /\ Len(out') = 1
          /\ \A d \in Declared(last'.args) :
                LET key == getLookupKey(last'.args.auctionId, d[1], d[2])
                IN /\ HasBid(out'[1], d[1], d[2])
                   /\ key \notin DOMAIN timeoutCache'
                   /\ d \in NoBidPairs(last'.args) =>
                         CNVR_NO_BID \in Codes(ReportOf(out'[1], d).eventCodes)
                   /\ d \in ReceivedPairs(last'.args) =>
                         CNVR_BID \in Codes(ReportOf(out'[1], d).eventCodes)]_vars

\* C18: in a dispatched auction_end report, a declared bidder with a cached
\* timeout that appears in neither noBids nor bidsReceived has timeToRespond
\* equal to the event's auction-level timeout.
C18_TimeoutTimeToRespond ==
    [][(last'.op = "onAuctionEnd" /\ Len(out') = 1) =>
          \A d \in Declared(last'.args) :
             (/\ getLookupKey(last'.args.auctionId, d[1], d[2])
                    \in DOMAIN timeoutCache
              /\ d \notin NoBidPairs(last'.args)
              /\ d \notin ReceivedPairs(last'.args)
              /\ HasBid(out'[1], d[1], d[2])) =>
                ReportOf(out'[1], d).timeToRespond = last'.args.timeout]_vars

-----------------------------------------------------------------------------
(* Claims about the cache sweep *)

\* the age of a cache entry at a time
Age(entry, time) == time - entry.timeReceived

\* C19: cleanCache(cache, now) deletes exactly the entries whose age
\* now - timeReceived is at least 30000 ms; every entry of smaller age, also
\* one whose timeReceived lies after now, stays present and unchanged.
C19_CleanCacheByAge ==
    [][last'.op = "cleanCache" =>
          LET currTime == Val(last'.args)
          IN /\ \A k \in DOMAIN timeoutCache :
                   IF Age(timeoutCache[k], currTime) >= 30000
                   THEN k \notin DOMAIN timeoutCache'
                   ELSE /\ k \in DOMAIN timeoutCache'
                        /\ timeoutCache'[k] = timeoutCache[k]
             /\ DOMAIN timeoutCache' \subseteq DOMAIN timeoutCache
             /\ \A k \in DOMAIN timeoutCache :
                   timeoutCache[k].timeReceived > currTime =>
                      k \in DOMAIN timeoutCache']_vars

\* one call removed an entry and kept both an entry received after currTime
\* and one received before it
C19_Witness ==
    /\ last.op = "cleanCache"
    /\ dropped.timeoutCache # {}
    /\ \E k \in DOMAIN timeoutCache :
          timeoutCache[k].timeReceived > Val(last.args)
    /\ \E k \in DOMAIN timeoutCache :
          Age(timeoutCache[k], Val(last.args)) = TimeStep

\* C20: a firing of the sweep timer, 30000 ms after the one before, sweeps
\* adIdLookup and timeoutCache with the same current time: afterwards neither
\* cache holds an entry of age >= 30000 ms, and every younger entry of both
\* caches is still present and unchanged.
C20_SweepBothCaches ==
    [][last'.op = "sweep" =>
          /\ now >= nextSweep
          /\ nextSweep' = nextSweep + 30000
          /\ now' = now
          /\ \A k \in DOMAIN adIdLookup' : Age(adIdLookup'[k], now) < 30000
          /\ \A k \in DOMAIN timeoutCache' : Age(timeoutCache'[k], now) < 30000
          /\ \A k \in DOMAIN adIdLookup :
                Age(adIdLookup[k], now) < 30000 =>
                   k \in DOMAIN adIdLookup' /\ adIdLookup'[k] = adIdLookup[k]
          /\ \A k \in DOMAIN timeoutCache :
                Age(timeoutCache[k], now) < 30000 =>
                   k \in DOMAIN timeoutCache' /\ timeoutCache'[k] = timeoutCache[k]
          /\ DOMAIN adIdLookup' \subseteq DOMAIN adIdLookup
          /\ DOMAIN timeoutCache' \subseteq DOMAIN timeoutCache]_vars

\* one firing removed an aged entry from each cache and kept a younger one
C20_Witness ==
    /\ last.op = "sweep"
    /\ dropped.adIdLookup # {}
    /\ dropped.timeoutCache # {}
    /\ adIdLookup # EmptyObject

-----------------------------------------------------------------------------
(* Claims about enabling and disabling *)

\* C21: after disableAnalytics both adIdLookup and timeoutCache are empty,
\* whatever the ages of their entries; a second disableAnalytics in a row
\* raises no error and leaves both caches empty.
C21_DisableClearsCaches ==
    [][last'.op = "disableAnalytics" =>
          /\ adIdLookup' = EmptyObject
          /\ timeoutCache' = EmptyObject
          /\ ~threw']_vars

\* C22: the sweep timer runs only while the adapter is enabled: no firing
\* before the first successful enableAnalytics and none after
\* disableAnalytics until the adapter is enabled again.
C22_SweepOnlyWhileEnabled ==
    [][last'.op = "sweep" => enabled]_vars

\* C24: the render_failed payload of a successful onAdRenderFailed carries on
\* its single bid a non-empty message.
C24_RenderFailedMessage ==
    (/\ last.op = "onAdRenderFailed"
     /\ Len(out) = 1) =>
        \A code \in DOMAIN out[1].adUnits :
           \A bidder \in DOMAIN out[1].adUnits[code].bids :
              LET bid == out[1].adUnits[code].bids[bidder]
              IN /\ "message" \in DOMAIN bid
                 /\ ~IsUndefined(bid.message)
                 /\ Val(bid.message) # ""

\* the configuration names a site id
ValidConfig(config) ==
    /\ ~IsUndefined(config)
    /\ ~IsUndefined(Val(config).options)
    /\ ~IsUndefined(Val(Val(config).options).site_id)

EventOps == {"onBidWon", "onAdRenderFailed", "onBidTimeout", "onAuctionEnd"}

-----------------------------------------------------------------------------
(* Claims about ad sizes *)

\* the value is an integer
IsInteger(x) == ~IsUndefined(x) /\ "num" \in DOMAIN Val(x)

\* the input if it is an integer, -1 otherwise
Validated(x) == IF IsInteger(x) THEN x ELSE Def(Num(-1))

ValidatedSize(width, height) == [w |-> Validated(width), h |-> Validated(height)]

\* C25: createAdSize(width, height) validates its inputs independently: w is
\* the width if that is an integer and -1 otherwise, h likewise; so
\* createAdSize(1, 2) = {w: 1, h: 2}, createAdSize() = {w: -1, h: -1} and
\* createAdSize('foo', 'bar') = {w: -1, h: -1}.  The adSize of bid_won and of
\* auction_end reports is validated in the same way.
C25_AdSizeValidated ==
    /\ last.op = "createAdSize" =>
          last.args.returned = ValidatedSize(last.args.width, last.args.height)
    /\ (last.op = "onBidWon" /\ Len(out) = 1) =>
          out[1].adUnits[Str(last.args.adUnitCode)]
                .bids[Str(last.args.bidderCode)].adSize
             = Def(ValidatedSize(last.args.width, last.args.height))
    /\ (last.op = "onAuctionEnd" /\ Len(out) = 1) =>
          \A d \in Declared(last.args) :
             (HasBid(out[1], d[1], d[2]) /\ ReceivedAt(last.args, d) # {}) =>
                LET record == Records(last.args.bidsReceived)
                                 [Last(ReceivedAt(last.args, d))]
                IN ReportOf(out[1], d).adSize
                      = Def(ValidatedSize(record.width, record.height))

\* a declared size entry that is an array of two numbers
IsNumericPair(entry) ==
    /\ IsArray(entry)
    /\ Len(entry.arr) = 2
    /\ \A i \in 1..2 : "num" \in DOMAIN entry.arr[i]

\* the size entries an ad unit declares: a flat pair [w, h] is one entry
SizeEntries(sizes) ==
    IF IsUndefined(sizes) \/ ~IsArray(Val(sizes)) THEN <<>>
    ELSE IF IsNumericPair(Val(sizes)) THEN <<Val(sizes)>>
    ELSE Val(sizes).arr

\* the sizes the report of an ad unit is to carry
ReportedSizes(sizes) ==
    LET pairs == SelectSeq(SizeEntries(sizes), IsNumericPair)
    IN [i \in 1..Len(pairs) |-> [w |-> pairs[i].arr[1], h |-> pairs[i].arr[2]]]

\* C29: in an auction_end report the sizes of an ad-slot are exactly the
\* declared entries that are two-element numeric pairs, in declared order and
\* with duplicates; a malformed entry is skipped and affects neither the other
\* sizes, nor the slot's bids, nor the dispatch of the payload.
C29_SizesReported ==
    (last.op = "onAuctionEnd" /\ WellDeclared(last.args)
       /\ ~IsUndefined(last.args.noBids) /\ ~IsUndefined(last.args.bidsReceived)
       /\ ~HasUndeclaredRecord(last.args)) =>
        /\ Len(out) = 1
        /\ \A i \in 1..Len(Val(last.args.adUnits)) :
              LET adUnit == Val(last.args.adUnits)[i]
                  report == out[1].adUnits[Str(adUnit.code)]
              IN /\ Has(out[1].adUnits, Str(adUnit.code))
                 /\ report.sizes = ReportedSizes(adUnit.sizes)
                 /\ DOMAIN report.bids =
                       {Str(Val(adUnit.bids)[j].bidder) :
                           j \in 1..Len(Val(adUnit.bids))}

-----------------------------------------------------------------------------
(* Claims about getLookupKey *)

\* the components of a getLookupKey call, as passed
Triple(args) == <<args.auctionId, args.adUnitCode, args.bidderCode>>

\* the components with an absent one read as the string 'undefined'
TripleAsStrings(args) ==
    <<Str(args.auctionId), Str(args.adUnitCode), Str(args.bidderCode)>>

\* no component of the call contains the '-' separator
SeparatorFree(args) ==
    \A i \in 1..3 : Triple(args)[i] # Def("a-b")

\* the examples of the key format
KeyExamples(args) ==
    /\ Triple(args) = <<undefined, undefined, undefined>> =>
          args.returned = "undefined-undefined-undefined"
    /\ Triple(args) = <<Def("foo"), Def("bar"), Def("baz")>> =>
          args.returned = "foo-bar-baz"
    /\ Triple(args) = <<undefined, Def("a"), Def("b")>> =>
          args.returned = "undefined-a-b"
    /\ Triple(args) = <<Def("a"), undefined, Def("b")>> =>
          args.returned = "a-undefined-b"
    /\ Triple(args) = <<Def("a"), Def("b"), undefined>> =>
          args.returned = "a-b-undefined"

\* C26: getLookupKey never fails and is a pure function: equal triples give
\* equal keys, an absent component serializes as the literal 'undefined', and
\* two different triples whose components do not contain the '-' separator
\* give different keys.
C26_KeyInjective ==
    [][(last.op = "getLookupKey" /\ last'.op = "getLookupKey") =>
          /\ ~threw'
          /\ KeyExamples(last'.args)
          /\ Triple(last.args) = Triple(last'.args) =>
                last.args.returned = last'.args.returned
          /\ (/\ Triple(last.args) # Triple(last'.args)
              /\ SeparatorFree(last.args)
              /\ SeparatorFree(last'.args)) =>
                last.args.returned # last'.args.returned]_vars

\* C26 (amended): as C26, with an absent component and the string 'undefined'
\* counted as the same component: two triples that differ after an absent
\* component is read as 'undefined', and whose components do not contain the
\* '-' separator, give different keys; triples that agree after that reading
\* give equal keys.
C26_KeyInjectiveAsStrings ==
    [][(last.op = "getLookupKey" /\ last'.op = "getLookupKey") =>
          /\ ~threw'
          /\ adIdLookup' = adIdLookup /\ timeoutCache' = timeoutCache
          /\ KeyExamples(last'.args)
          /\ TripleAsStrings(last.args) = TripleAsStrings(last'.args) =>
                last.args.returned = last'.args.returned
          /\ (/\ TripleAsStrings(last.args) # TripleAsStrings(last'.args)
              /\ SeparatorFree(last.args)
              /\ SeparatorFree(last'.args)) =>
                last.args.returned # last'.args.returned]_vars

\* getLookupKey('foo', 'bar', 'baz') has returned 'foo-bar-baz'
C26_Witness ==
    /\ last.op = "getLookupKey"
    /\ Triple(last.args) = <<Def("foo"), Def("bar"), Def("baz")>>
    /\ last.args.returned = "foo-bar-baz"
    /\ ~threw

-----------------------------------------------------------------------------
(* Claims about the attribution and the removal of timeouts *)

KeyOfTriple(t) == getLookupKey(t[1], t[2], t[3])

\* the timeout code is in the dispatched report for the declared triple t
ReportsTimeout(payload, t) ==
    /\ HasBid(payload, t[2], t[3])
    /\ CNVR_TIMEOUT \in Codes(payload.adUnits[Str(t[2])].bids[Str(t[3])].eventCodes)

\* C27: after an auction-end event has used the timeout of a triple, a later
\* auction-end event of the same auction declaring the same slot and bidder,
\* with no new bid-timeout for that triple in between, dispatches a report in
\* which that bidder on that slot has no timeout code.
C27_TimeoutReportedOnce ==
    [][(last'.op = "onAuctionEnd" /\ Len(out') = 1) =>
          \A t \in DeclaredTriples(last'.args) \cap consumed :
             ~ReportsTimeout(out'[1], t)]_vars

\* C28: timeoutCache entries are removed only by onAuctionEnd when their key
\* is the key of a bid request the event declares, by the sweep when aged, or
\* by disabling: onBidWon and onAdRenderFailed leave timeoutCache unchanged,
\* onAuctionEnd leaves every entry not matched by a declared bid request
\* present and unchanged, and no other handler removes an entry.
C28_TimeoutCacheRemovals ==
    [][/\ last'.op \in {"onBidWon", "onAdRenderFailed"} =>
             timeoutCache' = timeoutCache
       /\ last'.op = "onAuctionEnd" =>
             LET keys == {KeyOfTriple(t) : t \in DeclaredTriples(last'.args)}
             IN /\ (DOMAIN timeoutCache) \ (DOMAIN timeoutCache') \subseteq keys
                /\ DOMAIN timeoutCache' \subseteq DOMAIN timeoutCache
                /\ \A k \in (DOMAIN timeoutCache) \ keys :
                      k \in DOMAIN timeoutCache' /\ timeoutCache'[k] = timeoutCache[k]
       /\ last'.op = "sweep" =>
             /\ DOMAIN timeoutCache' \subseteq DOMAIN timeoutCache
             /\ \A k \in DOMAIN timeoutCache :
                   IF Age(timeoutCache[k], now) >= MAX_MILLISECONDS_IN_CACHE
                   THEN k \notin DOMAIN timeoutCache'
                   ELSE k \in DOMAIN timeoutCache' /\ timeoutCache'[k] = timeoutCache[k]
       /\ last'.op \notin {"onAuctionEnd", "sweep", "disableAnalytics"} =>
             DOMAIN timeoutCache \subseteq DOMAIN timeoutCache']_vars

\* an auction end has removed the entry of its declared bid request and left
\* the entries of another auction and of an undeclared bidder in place
C28_Witness ==
    /\ last.op = "onAuctionEnd"
    /\ last.args.auctionId = Def("A")
    /\ dropped.timeoutCache = {KeyOfTriple(t) : t \in DeclaredTriples(last.args)}
    /\ "B-s-c" \in DOMAIN timeoutCache
    /\ "A-s-c" \in DOMAIN timeoutCache
    /\ Len(out) = 1

\* C30: an auction_end report carries the timeout code for bidder B on slot S
\* of auction A only if a bid-timeout for exactly the triple (A, S, B) was
\* recorded earlier and has been neither used nor evicted since, also when
\* identifiers contain the '-' separator; and the timeout recorded for a
\* triple the event does not declare is not used up by the event.
C30_TimeoutsAttributed ==
    [][last'.op = "onAuctionEnd" =>
          /\ Len(out') = 1 =>
                \A t \in DeclaredTriples(last'.args) :
                   ReportsTimeout(out'[1], t) => t \in DOMAIN recorded
          /\ \A t \in (DOMAIN recorded) \ DeclaredTriples(last'.args) :
                KeyOfTriple(t) \in DOMAIN timeoutCache =>
                   KeyOfTriple(t) \in DOMAIN timeoutCache']_vars

-----------------------------------------------------------------------------
(* Claims about eviction and about timeouts recorded again *)

\* C31: once a sweep has removed an adIdLookup entry, a later render-failed
\* event for that adId dispatches nothing and changes no cache; once a sweep
\* has removed the timeoutCache entry of a triple, a later auction-end event
\* declaring that triple reports no timeout code for it (in both cases with
\* no bid-won for the adId, or bid-timeout for the triple, in between).
C31_EvictionFinal ==
    [][/\ (/\ last'.op = "onAdRenderFailed"
           /\ Str(last'.args.adId) \in evicted.adIds) =>
             /\ out' = <<>>
             /\ adIdLookup' = adIdLookup
             /\ timeoutCache' = timeoutCache
       /\ (last'.op = "onAuctionEnd" /\ Len(out') = 1) =>
             \A t \in DeclaredTriples(last'.args) \cap evicted.triples :
                ~ReportsTimeout(out'[1], t)]_vars

\* C32: a bid-timeout for a triple that already has a timeoutCache entry
\* replaces the entry's timeReceived by the current time, so the entry's age
\* starts again at 0 and a sweep keeps it while that age is below the limit;
\* the cache holds one entry for the triple, and a later matching auction end
\* reports the timeout code once and removes the entry.
C32_TimeoutLastWriteWins ==
    [][/\ last'.op = "onBidTimeout" =>
             \A t \in TimedOutTriples(last'.args) :
                /\ KeyOfTriple(t) \in DOMAIN timeoutCache'
                /\ timeoutCache'[KeyOfTriple(t)] = [timeReceived |-> now]
                /\ Age(timeoutCache'[KeyOfTriple(t)], now') = 0
                /\ DOMAIN timeoutCache' = (DOMAIN timeoutCache)
                      \cup {KeyOfTriple(u) : u \in TimedOutTriples(last'.args)}
       /\ last'.op = "sweep" =>
             \A t \in rewritten :
                (/\ KeyOfTriple(t) \in DOMAIN timeoutCache
                 /\ Age(recorded[t], now) < MAX_MILLISECONDS_IN_CACHE) =>
                   KeyOfTriple(t) \in DOMAIN timeoutCache'
       /\ (last'.op = "onAuctionEnd" /\ Len(out') = 1) =>
             \A t \in DeclaredTriples(last'.args) :
                KeyOfTriple(t) \in DOMAIN timeoutCache =>
                   /\ HasBid(out'[1], t[2], t[3])
                   /\ Occurrences(ReportOf(out'[1], <<t[2], t[3]>>).eventCodes,
                                  CNVR_TIMEOUT) = 1
                   /\ KeyOfTriple(t) \notin DOMAIN timeoutCache']_vars

\* a sweep at 30000 ms has kept the entry of a triple that timed out at 0 and
\* again at 15000
C32_Witness ==
    /\ last.op = "sweep"
    /\ now = CACHE_CLEANUP_TIME_IN_MILLIS
    /\ \E t \in rewritten :
          /\ KeyOfTriple(t) \in DOMAIN timeoutCache
          /\ timeoutCache[KeyOfTriple(t)].timeReceived = TimeStep
          /\ recorded[t].timeReceived = TimeStep

====
